---- MODULE Spec2Model ----
(***************************************************************************)
(* A model of lerobot-launchable/scripts/run_train.py: one run of main().  *)
(*                                                                         *)
(* Strings are sequences of chunks (a chunk is a TLA+ string holding one   *)
(* or more characters); every character the program inspects ("/", "_",    *)
(* upper-case letters, the "local/" prefix) is a chunk of its own, so      *)
(* concatenation is \o and replace/lower/startswith work chunk by chunk.   *)
(* A YAML mapping is a function whose DOMAIN is the set of keys present.   *)
(***************************************************************************)
EXTENDS Integers, Sequences, FiniteSets, TLC

VARIABLES
    config,        \* what yaml.safe_load returned; output_dir is rewritten on a collision
    fs,            \* the paths that exist on the file system
    pc,            \* main()'s position
    policy_type,   \* main's local
    output_dir,    \* main's local
    job_name,      \* main's local
    resume,        \* main's local
    base_dir,      \* naming loop: the directory that already existed
    timestamp,     \* naming loop: datetime.now().strftime(...), taken once
    counter,       \* naming loop
    accelerator,   \* the machine's torch / CUDA state as found when the command is built
    train_cmd,     \* the list build_train_command returned
    returncode,    \* <<result.returncode>> of the training subprocess (<<>> before it ran)
    calls,         \* every subprocess / library / prompt call made, in order
    printed,       \* the messages printed so far (tags)
    upload_args,   \* the arguments of each upload_to_hub call
    env_id,        \* main's local
    token,         \* main's local
    environ,       \* the os.environ entries main() has written
    exit_kind,     \* "running", "sys.exit" or "traceback" (an uncaught exception)
    exit_status    \* <<the process's exit status>> once it has ended (<<>> before)

vars == <<config, fs, pc, policy_type, output_dir, job_name, resume, base_dir,
          timestamp, counter, accelerator, train_cmd, returncode, calls, printed,
          upload_args, env_id, token, environ, exit_kind, exit_status>>

----------------------------------------------------------------------------
(* Bounds *)

\* How many timestamped sibling directories may already exist (counters 0..MaxTaken-1).
MaxTaken == 2

----------------------------------------------------------------------------
(* Python values *)

\* Python's None where a string is expected (.get of a missing key, getenv of an unset name).
None == <<"<None>">>

\* `if x:` / `not x` for a string-or-None value
Truthy(s) == s # None /\ s # <<>>

EmptyMap == [k \in {} |-> TRUE]

\* A YAML key with no value (`policy:`) loads as None; so does an empty file.
NoneValue == [null |-> TRUE]

IsNone(m) == DOMAIN m = {"null"}

\* dict.get(key, default)
Get(m, key, default) == IF key \in DOMAIN m THEN m[key] ELSE default

\* str.startswith
StartsWith(s, prefix) ==
    /\ Len(s) >= Len(prefix)
    /\ SubSeq(s, 1, Len(prefix)) = prefix

\* str.replace(old, new) for a one-character old
Replace(s, old, new) == [i \in 1..Len(s) |-> IF s[i] = old THEN new ELSE s[i]]

LowerChar(c) ==
    CASE c = "A" -> "a"
      [] c = "B" -> "b"
      [] c = "M" -> "m"
      [] c = "R" -> "r"
      [] OTHER   -> c

\* str.lower
Lower(s) == [i \in 1..Len(s) |-> LowerChar(s[i])]

Digit(d) ==
    CASE d = 0 -> "0" [] d = 1 -> "1" [] d = 2 -> "2" [] d = 3 -> "3" [] d = 4 -> "4"
      [] d = 5 -> "5" [] d = 6 -> "6" [] d = 7 -> "7" [] d = 8 -> "8" [] OTHER -> "9"

RECURSIVE Str(_)
\* str(n) for n >= 0
Str(n) == IF n < 10 THEN <<Digit(n)>> ELSE Str(n \div 10) \o <<Digit(n % 10)>>

\* os.path.join(a, b)
PathJoin(a, b) ==
    IF StartsWith(b, <<"/">>) THEN b
    ELSE IF a = <<>> \/ a[Len(a)] = "/" THEN a \o b
    ELSE a \o <<"/">> \o b

\* os.path.exists
Exists(path) == path \in fs

\* The status the parent of this process sees for sys.exit(n): n & 0xFF.
ExitStatus(n) == n % 256

----------------------------------------------------------------------------
(* The inputs: the YAML file, the file system, the clock *)

\* Marks "this key is not in the file" in the parameter records below; never a value.
Absent == <<"<absent>">>

Opt(key, value) == IF value = Absent THEN EmptyMap ELSE key :> value

OptIf(present, key, value) == IF present THEN key :> value ELSE EmptyMap

PolicyTypes ==
    {<<"act">>, <<"groot">>, <<"xvla">>, <<"smolvla">>, <<"pi">>, <<"pi05">>, <<"diffusion">>}

DefaultOutputDir == <<"/", "workspace", "/", "outputs">>

GivenOutputDir == <<"/", "data", "/", "run">>

DefaultJobName == <<"untitled">>

GivenJobName == <<"M", "y", "_", "R", "u", "n", "_", "A">>

LocalRepoId == <<"l", "o", "c", "a", "l", "/", "x">>

PolicyRepoId == <<"u", "s", "e", "r", "/", "p", "_", "M">>

UploadRepoId == <<"o", "r", "g", "/", "m", "_", "B">>

\* The optional keys build_train_command reads and main() does not.
RichTop ==
    ("dataset" :> ("repo_id" :> <<"lerobot", "/", "pusht">>))
    @@ ("steps" :> 200) @@ ("batch_size" :> 16)
    @@ ("device" :> <<"cpu">>) @@ ("wandb" :> ("enable" :> FALSE))

RichPolicy ==
    ("push_to_hub" :> TRUE) @@ ("pretrained_path" :> <<"lerobot", "/", "base">>)
    @@ ("compile_model" :> TRUE) @@ ("gradient_checkpointing" :> TRUE)

\* The mapping a YAML file with these keys loads as.
\*   shape: "empty_file" | "no_policy" | "null_policy" | "map"
MkConfig(p) ==
    IF p.shape = "empty_file" THEN NoneValue
    ELSE
        (CASE p.shape = "no_policy"   -> EmptyMap
           [] p.shape = "null_policy" -> "policy" :> NoneValue
           [] OTHER -> "policy" :> (Opt("type", p.ptype) @@ Opt("repo_id", p.prepo)
                                    @@ (IF p.rich THEN RichPolicy ELSE EmptyMap)))
        @@ Opt("output_dir", p.outdir)
        @@ Opt("job_name", p.job)
        @@ OptIf(p.resume, "resume", TRUE)
        @@ Opt("dtype", p.dtype)
        @@ OptIf(p.upen # "absent" \/ p.uprepo # Absent, "upload",
                 OptIf(p.upen # "absent", "enable", p.upen = "true")
                 @@ Opt("repo_id", p.uprepo))
        @@ OptIf(p.autodel # "absent", "auto_delete", "enable" :> (p.autodel = "true"))
        @@ (IF p.rich THEN RichTop ELSE EmptyMap)

\* A plain act run that uploads nothing and deletes nothing.
BaseParams ==
    [shape |-> "map", ptype |-> <<"act">>, prepo |-> Absent, rich |-> FALSE,
     outdir |-> GivenOutputDir, job |-> GivenJobName, resume |-> FALSE,
     dtype |-> <<"float32">>, upen |-> "false", uprepo |-> Absent, autodel |-> "absent"]

\* The policy section, the dtype and the builder-only keys, in every combination.
PolicyParams ==
    {[BaseParams EXCEPT !.shape = s, !.ptype = t, !.dtype = d, !.rich = r] :
        s \in {"empty_file", "no_policy", "null_policy", "map"},
        t \in PolicyTypes \cup {Absent, <<>>},
        d \in {Absent, <<"auto">>, <<"float32">>},
        r \in BOOLEAN}

\* output_dir, job_name, resume and whether the upload runs, in every combination.
OutputDirParams ==
    {[BaseParams EXCEPT !.outdir = o, !.job = j, !.resume = r, !.upen = u, !.ptype = t] :
        o \in {Absent, GivenOutputDir},
        j \in {Absent, GivenJobName},
        r \in BOOLEAN,
        u \in {"absent", "false"},
        t \in {<<"act">>, <<"groot">>}}

\* Everything the repository identifier is resolved from, in every combination.
UploadParams ==
    {[BaseParams EXCEPT !.upen = u, !.uprepo = ur, !.prepo = pr, !.job = j] :
        u \in {"absent", "true", "false"},
        ur \in {Absent, <<>>, UploadRepoId},
        pr \in {Absent, <<>>, LocalRepoId, PolicyRepoId},
        j \in {Absent, GivenJobName}}

\* auto_delete with and without the upload before it.
AutoDeleteParams ==
    {[BaseParams EXCEPT !.autodel = a, !.upen = u] :
        a \in {"absent", "true", "false"},
        u \in {"absent", "false"}}

Configs == {MkConfig(p) : p \in PolicyParams \cup OutputDirParams \cup UploadParams \cup AutoDeleteParams}

\* datetime.now().strftime("%Y%m%d_%H%M%S"): one that earlier runs used, one that is new.
ClashTimestamp == <<"20240101", "_", "120000">>

FreshTimestamp == <<"20240101", "_", "120001">>

Timestamps == {ClashTimestamp, FreshTimestamp}

\* f"{job_name}_{timestamp}" and f"{job_name}_{timestamp}_{counter}"
CandidateName(job, ts, n) ==
    IF n = 0 THEN job \o <<"_">> \o ts
    ELSE job \o <<"_">> \o ts \o <<"_">> \o Str(n)

\* The file systems the run may find: the output directory missing, or present
\* with any set of the timestamped children earlier runs left in it.
FileSystems(cfg) ==
    LET base == Get(cfg, "output_dir", DefaultOutputDir)
        job  == Get(cfg, "job_name", DefaultJobName)
    IN  {{}} \cup
        {{base} \cup {PathJoin(base, CandidateName(job, ClashTimestamp, n)) : n \in taken} :
            taken \in SUBSET (0..(MaxTaken - 1))}

Init ==
    /\ config \in Configs
    /\ fs \in FileSystems(config)
    /\ pc = "start"
    /\ policy_type = None
    /\ output_dir = None
    /\ job_name = None
    /\ resume = FALSE
    /\ base_dir = None
    /\ timestamp = None
    /\ counter = 0
    /\ accelerator = "unprobed"
    /\ train_cmd = <<>>
    /\ returncode = <<>>
    /\ calls = <<>>
    /\ printed = {}
    /\ upload_args = <<>>
    /\ env_id = None
    /\ token = None
    /\ environ = EmptyMap
    /\ exit_kind = "running"
    /\ exit_status = <<>>

----------------------------------------------------------------------------
(* Leaving main() *)

\* sys.exit(n)
SysExit(n) ==
    /\ pc' = "done"
    /\ exit_kind' = "sys.exit"
    /\ exit_status' = <<ExitStatus(n)>>

\* An exception nothing catches: the interpreter prints a traceback and exits 1.
Traceback ==
    /\ pc' = "done"
    /\ exit_kind' = "traceback"
    /\ exit_status' = <<1>>

Goto(label) ==
    /\ pc' = label
    /\ UNCHANGED <<exit_kind, exit_status>>

\* How a call turned out: "zero" / "nonzero" (a subprocess's returncode), "returns"
\* or "raises" (a library call or prompt, or a subprocess that could not start).
Outcome(rc) == IF rc = 0 THEN "zero" ELSE "nonzero"

\* subprocess.run(argv, check=False) as an entry of calls
SubprocessRun(argv, outcome) == [fn |-> "subprocess.run", argv |-> argv, outcome |-> outcome]

LibraryCall(name, args, outcome) == [fn |-> name, argv |-> args, outcome |-> outcome]

----------------------------------------------------------------------------
(* main(): load the config and require policy.type *)

\* config.get("policy", {}).get("type") raises AttributeError on a config, or a
\* policy section, that loaded as None.
CheckPolicyType ==
    /\ pc = "start"
    /\ IF IsNone(config) \/ IsNone(Get(config, "policy", EmptyMap))
       THEN /\ Traceback
            /\ UNCHANGED <<policy_type, printed>>
       ELSE LET pt == Get(Get(config, "policy", EmptyMap), "type", None)
            IN  IF ~Truthy(pt)
                THEN /\ printed' = printed \cup {"Error: policy.type must be specified in config"}
                     /\ SysExit(1)
                     /\ UNCHANGED policy_type
                ELSE /\ policy_type' = pt
                     /\ Goto("install")
                     /\ UNCHANGED printed
    /\ UNCHANGED <<config, fs, output_dir, job_name, resume, base_dir, timestamp, counter,
                   accelerator, train_cmd, returncode, calls, upload_args, env_id, token,
                   environ>>

----------------------------------------------------------------------------
(* install_policy_extras *)

\* The command of a policy type that needs no extras ("act": None).
NoCommand == <<>>

PipInstall(extra) == <<<<"pip">>, <<"install">>, <<"-e">>, <<"/opt/lerobot[", extra, "]">>>>

\* A faulty variant: the "act" entry holds a command instead of None.
install_commands_act_installs ==
    (<<"xvla">> :> PipInstall("xvla"))
    @@ (<<"smolvla">> :> PipInstall("smolvla"))
    @@ (<<"pi">> :> PipInstall("pi"))
    @@ (<<"pi05">> :> PipInstall("pi"))
    @@ (<<"act">> :> PipInstall("act"))

install_commands ==
    (<<"xvla">> :> PipInstall("xvla"))
    @@ (<<"smolvla">> :> PipInstall("smolvla"))
    @@ (<<"pi">> :> PipInstall("pi"))
    @@ (<<"pi05">> :> PipInstall("pi"))
    @@ (<<"act">> :> NoCommand)

\* The return codes pip may give.
PipCodes == {0, 1}

\* A faulty variant: check=True, so a failing pip raises CalledProcessError.
PipCheck_raising == TRUE

\* subprocess.run(cmd, check=False): a non-zero return code raises nothing.
PipCheck == FALSE

install_policy_extras ==
    /\ pc = "install"
    /\ \/ /\ policy_type = <<"groot">>
          /\ \E flash_attn \in BOOLEAN :
                printed' = printed \cup
                    {IF flash_attn THEN "Flash Attention is available"
                                   ELSE "ERROR: Flash-attn not found!"}
          /\ Goto("outdir")
          /\ UNCHANGED calls
       \/ /\ policy_type # <<"groot">>
          /\ policy_type \notin DOMAIN install_commands
          /\ printed' = printed \cup {"Warning: Unknown policy type, skipping extras installation"}
          /\ Goto("outdir")
          /\ UNCHANGED calls
       \/ /\ policy_type # <<"groot">>
          /\ policy_type \in DOMAIN install_commands
          /\ install_commands[policy_type] = NoCommand
          /\ printed' = printed \cup {"ACT policy: no extras needed"}
          /\ Goto("outdir")
          /\ UNCHANGED calls
       \/ /\ policy_type # <<"groot">>
          /\ policy_type \in DOMAIN install_commands
          /\ install_commands[policy_type] # NoCommand
          /\ \E rc \in PipCodes :
                /\ calls' = Append(calls, SubprocessRun(install_commands[policy_type], Outcome(rc)))
                /\ IF rc # 0 /\ PipCheck
                   THEN Traceback /\ UNCHANGED printed
                   ELSE
                     /\ printed' = printed \cup
                        {IF rc # 0 THEN "Warning: Failed to install extras, continuing anyway..."
                                   ELSE "Policy extras installation complete."}
                     /\ Goto("outdir")
    /\ UNCHANGED <<config, fs, policy_type, output_dir, job_name, resume, base_dir, timestamp,
                   counter, accelerator, train_cmd, returncode, upload_args, env_id, token,
                   environ>>

----------------------------------------------------------------------------
(* main(): make the output directory unique unless resuming *)

ResolveOutputDir ==
    /\ pc = "outdir"
    /\ LET dir == Get(config, "output_dir", DefaultOutputDir)
           res == Get(config, "resume", FALSE)
       IN  /\ output_dir' = dir
           /\ job_name' = Get(config, "job_name", DefaultJobName)
           /\ resume' = res
           /\ IF Exists(dir) /\ ~res
              THEN /\ base_dir' = dir
                   /\ \E now \in Timestamps : timestamp' = now
                   /\ counter' = 0
                   /\ Goto("naming")
              ELSE /\ Goto("build")
                   /\ UNCHANGED <<base_dir, timestamp, counter>>
    /\ UNCHANGED <<config, fs, policy_type, accelerator, train_cmd, returncode, calls, printed,
                   upload_args, env_id, token, environ>>

\* A faulty variant: the counter is bumped before the first try.
Candidate_skips_first(base, job, ts, n) == PathJoin(base, CandidateName(job, ts, n + 1))

\* The path one pass of the `while True` loop tries.
Candidate(base, job, ts, n) == PathJoin(base, CandidateName(job, ts, n))

\* One pass of the loop; on the break, the print and the config update after it.
NamingLoop ==
    /\ pc = "naming"
    /\ LET path == Candidate(base_dir, job_name, timestamp, counter)
       IN  /\ output_dir' = path
           /\ IF ~Exists(path)
              THEN /\ printed' = printed \cup {"Output directory already exists, using a new one"}
                   /\ config' = ("output_dir" :> path) @@ config
                   /\ Goto("build")
                   /\ UNCHANGED counter
              ELSE /\ counter' = counter + 1
                   /\ Goto("naming")
                   /\ UNCHANGED <<printed, config>>
    /\ UNCHANGED <<fs, policy_type, job_name, resume, base_dir, timestamp, accelerator,
                   train_cmd, returncode, calls, upload_args, env_id, token, environ>>

----------------------------------------------------------------------------
(* get_dtype and build_train_command *)

\* What `import torch` and the two CUDA probes can find.
Accelerators == {"no_torch", "no_cuda", "cuda_without_bf16", "cuda_with_bf16"}

\* A faulty variant: the ImportError branch falls back to float32.
get_dtype_import_error_float32(acc) ==
    IF acc = "cuda_with_bf16" THEN <<"bfloat16">>
    ELSE IF acc = "no_torch" THEN <<"float32">>
    ELSE <<"float16">>

get_dtype(acc) == IF acc = "cuda_with_bf16" THEN <<"bfloat16">> ELSE <<"float16">>

\* The policy types whose command gets no --policy.dtype.
NoDtypePolicies == {<<"groot">>}

Flag(present, items) == IF present THEN items ELSE <<>>

build_train_command(cfg, acc) ==
    LET policy      == Get(cfg, "policy", EmptyMap)
        ptype       == Get(policy, "type", <<>>)
        dtype       == Get(cfg, "dtype", <<"auto">>)
        device      == Get(cfg, "device", <<"cuda">>)
    IN  <<<<"python3">>, <<"-m">>, <<"lerobot.scripts.lerobot_train">>>>
        \o Flag("dataset" \in DOMAIN cfg /\ "repo_id" \in DOMAIN Get(cfg, "dataset", EmptyMap),
                <<<<"--dataset.repo_id">>, Get(Get(cfg, "dataset", EmptyMap), "repo_id", None)>>)
        \o Flag("policy" \in DOMAIN cfg /\ "type" \in DOMAIN policy,
                <<<<"--policy.type">>, ptype>>)
        \o Flag("output_dir" \in DOMAIN cfg, <<<<"--output_dir">>, Get(cfg, "output_dir", None)>>)
        \o Flag("job_name" \in DOMAIN cfg, <<<<"--job_name">>, Get(cfg, "job_name", None)>>)
        \o <<<<"--steps">>, Str(Get(cfg, "steps", 3000))>>
        \o <<<<"--batch_size">>, Str(Get(cfg, "batch_size", 8))>>
        \o Flag(ptype \notin NoDtypePolicies,
                <<<<"--policy.dtype">>, IF dtype = <<"auto">> THEN get_dtype(acc) ELSE dtype>>)
        \o Flag(Truthy(device), <<<<"--policy.device">>, device>>)
        \o (IF Get(Get(cfg, "wandb", EmptyMap), "enable", TRUE)
            THEN <<<<"--wandb.enable=true">>>> ELSE <<<<"--wandb.enable=false">>>>)
        \o Flag("repo_id" \in DOMAIN policy, <<<<"--policy.repo_id">>, Get(policy, "repo_id", None)>>)
        \o Flag(Get(policy, "push_to_hub", FALSE), <<<<"--policy.push_to_hub=true">>>>)
        \o Flag("pretrained_path" \in DOMAIN policy,
                <<<<"--policy.pretrained_path">>, Get(policy, "pretrained_path", None)>>)
        \o Flag(Get(policy, "compile_model", FALSE), <<<<"--policy.compile_model=true">>>>)
        \o Flag(Get(policy, "gradient_checkpointing", FALSE),
                <<<<"--policy.gradient_checkpointing=true">>>>)
        \o Flag(Get(cfg, "resume", FALSE), <<<<"--resume=true">>>>)

BuildCommand ==
    /\ pc = "build"
    /\ \E acc \in Accelerators :
          /\ accelerator' = acc
          /\ train_cmd' = build_train_command(config, acc)
    /\ Goto("train")
    /\ UNCHANGED <<config, fs, policy_type, output_dir, job_name, resume, base_dir, timestamp,
                   counter, returncode, calls, printed, upload_args, env_id, token, environ>>

\* The values that follow `flag` in a command line.
FlagValues(cmd, flag) == {cmd[i + 1] : i \in {j \in 1..(Len(cmd) - 1) : cmd[j] = flag}}

----------------------------------------------------------------------------
(* main(): run the training subprocess *)

\* result.returncode: an exit code, or -N when signal N killed the subprocess.
TrainCodes == {0, 1, 2, -9}

\* A faulty variant: `if result.returncode > 0`, which lets a signal death through.
TrainingFailed_positive_only(rc) == rc > 0

\* `if result.returncode != 0`
TrainingFailed(rc) == rc # 0

RunTraining ==
    /\ pc = "train"
    /\ \E rc \in TrainCodes, writes \in BOOLEAN :
          /\ calls' = Append(calls, SubprocessRun(train_cmd, Outcome(rc)))
          /\ returncode' = <<rc>>
          \* the trainer creates the directory --output_dir names, if it gets that far
          /\ fs' = IF writes THEN fs \cup FlagValues(train_cmd, <<"--output_dir">>) ELSE fs
          /\ IF TrainingFailed(rc)
             THEN /\ printed' = printed \cup {"Training failed"}
                  /\ SysExit(rc)
             ELSE /\ printed' = printed \cup {"Training completed successfully!"}
                  /\ Goto("upload")
    /\ UNCHANGED <<config, policy_type, output_dir, job_name, resume, base_dir, timestamp,
                   counter, accelerator, train_cmd, upload_args, env_id, token, environ>>

----------------------------------------------------------------------------
(* main(): resolve the repository and upload; upload_to_hub *)

LocalPrefix == <<"l", "o", "c", "a", "l", "/">>

\* job_name.replace("_", "-").lower()
Sanitize(name) == Lower(Replace(name, "_", "-"))

\* A faulty variant: the local/ placeholder test is left out.
RepoSource_keeps_local(cfg) ==
    LET repo_id        == Get(Get(cfg, "upload", EmptyMap), "repo_id", None)
        policy_repo_id == Get(Get(cfg, "policy", EmptyMap), "repo_id", None)
    IN  IF Truthy(repo_id) THEN "upload"
        ELSE IF Truthy(policy_repo_id) THEN "policy"
        ELSE "job_name"

\* Where main() takes the repository from: "upload", "policy" or "job_name".
RepoSource(cfg) ==
    LET repo_id        == Get(Get(cfg, "upload", EmptyMap), "repo_id", None)
        policy_repo_id == Get(Get(cfg, "policy", EmptyMap), "repo_id", None)
    IN  IF Truthy(repo_id) THEN "upload"
        ELSE IF Truthy(policy_repo_id) /\ ~StartsWith(policy_repo_id, LocalPrefix)
             THEN "policy"
             ELSE "job_name"

\* The repo_id main() hands to upload_to_hub.
ResolveRepoId(cfg) ==
    CASE RepoSource(cfg) = "upload" -> Get(Get(cfg, "upload", EmptyMap), "repo_id", None)
      [] RepoSource(cfg) = "policy" -> Get(Get(cfg, "policy", EmptyMap), "repo_id", None)
      [] OTHER -> Sanitize(Get(cfg, "job_name", DefaultJobName))

\* What the Hub client does: missing (ImportError), or create_repo and
\* upload_folder each returning or raising.
HubOutcomes ==
    {[installed |-> i, create |-> c, upload |-> u] :
        i \in BOOLEAN, c \in {"returns", "raises"}, u \in {"returns", "raises"}}

\* upload_to_hub(dir, repo_id, private): the calls it makes, what it prints and
\* what it returns.
upload_to_hub(dir, repo_id, hub) ==
    IF ~Exists(dir)
    THEN [made |-> <<>>, notes |-> {"Error: Output directory does not exist"}, success |-> FALSE]
    ELSE IF ~hub.installed
    THEN [made |-> <<>>, notes |-> {"Error: huggingface_hub not available, skipping upload"},
          success |-> FALSE]
    ELSE [made    |-> <<LibraryCall("create_repo", <<repo_id>>, hub.create),
                        LibraryCall("upload_folder", <<dir, repo_id>>, hub.upload)>>,
          notes   |-> {IF hub.upload = "returns" THEN "Successfully uploaded model"
                                                 ELSE "Error uploading to Hub"},
          success |-> hub.upload = "returns"]

UploadStep ==
    /\ pc = "upload"
    /\ LET upload_config == Get(config, "upload", EmptyMap)
       IN  IF Get(upload_config, "enable", TRUE)
           THEN \E hub \in HubOutcomes :
                   LET repo_id == ResolveRepoId(config)
                       done    == upload_to_hub(output_dir, repo_id, hub)
                   IN  /\ upload_args' = Append(upload_args,
                              [output_dir |-> output_dir, repo_id |-> repo_id,
                               private |-> Get(upload_config, "private", TRUE)])
                       /\ calls' = calls \o done.made
                       /\ printed' = printed
                              \cup (IF RepoSource(config) = "job_name"
                                    THEN {"Warning: No upload.repo_id specified, using generated"}
                                    ELSE {})
                              \cup done.notes
                              \cup (IF done.success THEN {}
                                    ELSE {"Warning: Model upload failed, but training completed successfully"})
           ELSE /\ printed' = printed \cup {"Upload disabled in config"}
                /\ UNCHANGED <<upload_args, calls>>
    /\ Goto("autodelete")
    /\ UNCHANGED <<config, fs, policy_type, output_dir, job_name, resume, base_dir, timestamp,
                   counter, accelerator, train_cmd, returncode, env_id, token, environ>>

----------------------------------------------------------------------------
(* main(): auto-delete, the credentials *)

\* What os.getenv can return for a credential: unset, set to "", set.
EnvValues == {None, <<>>, <<"e", "n", "v">>}

\* What a person may type at a prompt.
Typed == {<<>>, <<" ">>, <<" ", "t", "y", "p", "e", "d", " ">>}

RECURSIVE LStrip(_)
LStrip(s) == IF s # <<>> /\ Head(s) = " " THEN LStrip(Tail(s)) ELSE s

RECURSIVE RStrip(_)
RStrip(s) == IF s # <<>> /\ s[Len(s)] = " " THEN RStrip(SubSeq(s, 1, Len(s) - 1)) ELSE s

\* str.strip
Strip(s) == RStrip(LStrip(s))

\* auto_delete_config.get("enable", False), then the two os.getenv calls
ReadCredentials ==
    /\ pc = "autodelete"
    /\ IF Get(Get(config, "auto_delete", EmptyMap), "enable", FALSE)
       THEN /\ \E e \in EnvValues, t \in EnvValues :
                  /\ env_id' = e
                  /\ token' = t
            /\ Goto("prompt_env_id")
       ELSE /\ SysExit(0)
            /\ UNCHANGED <<env_id, token>>
    /\ UNCHANGED <<config, fs, policy_type, output_dir, job_name, resume, base_dir, timestamp,
                   counter, accelerator, train_cmd, returncode, calls, printed, upload_args,
                   environ>>

\* `if not env_id: env_id = input(...).strip()`; input() raises EOFError when
\* standard input is closed or empty, and nothing catches it.
PromptEnvId ==
    /\ pc = "prompt_env_id"
    /\ IF Truthy(env_id)
       THEN /\ Goto("prompt_token")
            /\ UNCHANGED <<env_id, environ, calls>>
       ELSE \/ \E typed \in Typed :
                     /\ calls' = Append(calls, LibraryCall("input", <<>>, "returns"))
                     /\ env_id' = Strip(typed)
                     /\ environ' = IF Truthy(Strip(typed))
                                   THEN ("BREV_ENV_ID" :> Strip(typed)) @@ environ
                                   ELSE environ
                     /\ Goto("prompt_token")
            \/ /\ calls' = Append(calls, LibraryCall("input", <<>>, "raises"))
               /\ Traceback
               /\ UNCHANGED <<env_id, environ>>
    /\ UNCHANGED <<config, fs, policy_type, output_dir, job_name, resume, base_dir, timestamp,
                   counter, accelerator, train_cmd, returncode, printed, upload_args, token>>

\* `if not token: token = getpass.getpass(...).strip()`, with the same EOFError
PromptToken ==
    /\ pc = "prompt_token"
    /\ IF Truthy(token)
       THEN /\ Goto("check_credentials")
            /\ UNCHANGED <<token, environ, calls>>
       ELSE \/ \E typed \in Typed :
                     /\ calls' = Append(calls, LibraryCall("getpass", <<>>, "returns"))
                     /\ token' = Strip(typed)
                     /\ environ' = IF Truthy(Strip(typed))
                                   THEN ("BREV_TOKEN" :> Strip(typed)) @@ environ
                                   ELSE environ
                     /\ Goto("check_credentials")
            \/ /\ calls' = Append(calls, LibraryCall("getpass", <<>>, "raises"))
               /\ Traceback
               /\ UNCHANGED <<token, environ>>
    /\ UNCHANGED <<config, fs, policy_type, output_dir, job_name, resume, base_dir, timestamp,
                   counter, accelerator, train_cmd, returncode, printed, upload_args, env_id>>

\* The if / elif / else that guards the call of delete_brev_instance
CheckCredentials ==
    /\ pc = "check_credentials"
    /\ IF ~Truthy(env_id)
       THEN /\ printed' = printed \cup {"Warning: auto_delete.enable is true but BREV_ENV_ID not provided"}
            /\ SysExit(0)
       ELSE IF ~Truthy(token)
       THEN /\ printed' = printed \cup {"Warning: auto_delete.enable is true but BREV_TOKEN not provided"}
            /\ SysExit(0)
       ELSE /\ Goto("delete_brev_instance")
            /\ UNCHANGED printed
    /\ UNCHANGED <<config, fs, policy_type, output_dir, job_name, resume, base_dir, timestamp,
                   counter, accelerator, train_cmd, returncode, calls, upload_args, env_id,
                   token, environ>>

----------------------------------------------------------------------------
(* delete_brev_instance *)

BrevInstall ==
    <<<<"sudo">>, <<"bash">>, <<"-c">>, <<"$(curl -fsSL .../brev-cli/main/bin/install-latest.sh)">>>>

BrevLogin(tok) == <<<<"brev">>, <<"login">>, <<"--token">>, tok, <<"--skip-browser">>>>

BrevDelete(id) == <<<<"brev">>, <<"delete">>, id>>

\* A subprocess.run inside the try block: returncode 0, returncode non-zero, or
\* an exception (the executable is not there), which the except clause catches.
RunOutcomes == {"zero", "nonzero", "raises"}

\* The subprocess calls delete_brev_instance makes and what it returns, given
\* whether shutil.which found brev and how each command it reaches turns out.
delete_brev_instance(id, tok, found, install, login, delete) ==
    LET installs == IF found THEN <<>> ELSE <<SubprocessRun(BrevInstall, install)>>
    IN  IF ~found /\ install # "zero"
        THEN [made |-> installs, success |-> FALSE]
        ELSE IF login # "zero"
        THEN [made |-> installs \o <<SubprocessRun(BrevLogin(tok), login)>>, success |-> FALSE]
        ELSE [made    |-> installs \o <<SubprocessRun(BrevLogin(tok), login),
                                         SubprocessRun(BrevDelete(id), delete)>>,
              success |-> delete = "zero"]

\* The call of delete_brev_instance, the warning after it, and the final sys.exit(0)
DeleteBrevInstance ==
    /\ pc = "delete_brev_instance"
    /\ \E found \in BOOLEAN, install \in RunOutcomes, login \in RunOutcomes, delete \in RunOutcomes :
          LET done == delete_brev_instance(env_id, token, found, install, login, delete)
          IN  /\ calls' = calls \o done.made
              /\ printed' = printed \cup
                     (IF done.success THEN {"Successfully deleted Brev instance"}
                      ELSE {"Warning: Failed to delete Brev instance, but training completed successfully"})
    /\ SysExit(0)
    /\ UNCHANGED <<config, fs, policy_type, output_dir, job_name, resume, base_dir, timestamp,
                   counter, accelerator, train_cmd, returncode, upload_args, env_id, token,
                   environ>>

----------------------------------------------------------------------------
(* The run *)

Next ==
    \/ CheckPolicyType
    \/ install_policy_extras
    \/ ResolveOutputDir
    \/ NamingLoop
    \/ BuildCommand
    \/ RunTraining
    \/ UploadStep
    \/ ReadCredentials
    \/ PromptEnvId
    \/ PromptToken
    \/ CheckCredentials
    \/ DeleteBrevInstance

Spec == Init /\ [][Next]_vars

\* main() is one sequential thread: a step that can be taken is taken.
FairSpec == Spec /\ WF_vars(Next)

----------------------------------------------------------------------------
(* Vocabulary of the properties *)

IsSubprocess(c, program) == c.fn = "subprocess.run" /\ c.argv[1] = <<program>>

IsPip(c) == IsSubprocess(c, "pip")

IsTraining(c) == IsSubprocess(c, "python3")

IsBrevInstall(c) == IsSubprocess(c, "sudo")

IsBrevLogin(c) == IsSubprocess(c, "brev") /\ c.argv[2] = <<"login">>

IsBrevDelete(c) == IsSubprocess(c, "brev") /\ c.argv[2] = <<"delete">>

\* A call that belongs to the upload or to the instance deletion
IsPostTraining(c) ==
    \/ c.fn \in {"create_repo", "upload_folder", "input", "getpass"}
    \/ IsBrevInstall(c) \/ IsBrevLogin(c) \/ IsBrevDelete(c)

PipCalls == {i \in DOMAIN calls : IsPip(calls[i])}

UploadEnabled == Get(Get(config, "upload", EmptyMap), "enable", TRUE)

AutoDeleteEnabled == Get(Get(config, "auto_delete", EmptyMap), "enable", FALSE)

\* policy.type is absent: the five shapes of the configuration that lack it
PolicyTypeMissing ==
    \/ IsNone(config)
    \/ "policy" \notin DOMAIN config
    \/ IsNone(config.policy)
    \/ "type" \notin DOMAIN config.policy
    \/ config.policy.type = <<>>

UsageError == "Error: policy.type must be specified in config"

Warnings ==
    {"Warning: auto_delete.enable is true but BREV_ENV_ID not provided",
     "Warning: auto_delete.enable is true but BREV_TOKEN not provided",
     "Warning: Failed to delete Brev instance, but training completed successfully"}

----------------------------------------------------------------------------
(* The properties *)

\* C1: once the training subprocess has run and main() has ended, the launcher's
\* exit status is the training return code: that code when it is non-zero, 0
\* when it is 0, whatever the upload and the instance deletion did.
C1_ExitStatusMirrorsTraining ==
    (pc = "done" /\ returncode # <<>>) => exit_status = returncode

\* C2: a non-zero training return code ends the run at once: the training call
\* is the last call made, upload_to_hub is never called, no Hub call, prompt or
\* brev command is made; and upload_to_hub is only ever called after a zero
\* return code.
C2_FailedTrainingShortCircuits ==
    /\ (returncode # <<>> /\ returncode # <<0>>) =>
          /\ pc = "done"
          /\ upload_args = <<>>
          /\ \A i \in DOMAIN calls : ~IsPostTraining(calls[i])
          /\ IsTraining(calls[Len(calls)])
          /\ env_id = None /\ token = None
    /\ upload_args # <<>> => returncode = <<0>>

C2_Witness ==
    /\ pc = "done"
    /\ returncode = <<-9>>
    /\ UploadEnabled
    /\ AutoDeleteEnabled

\* C3: when policy.type is absent (empty config, no policy key, policy key with
\* no value, policy mapping without type, empty type) main() fails with the
\* usage error: it prints it and calls sys.exit(1), and has run no command, no
\* upload and no deletion.
C3_MissingPolicyTypeIsUsageError ==
    PolicyTypeMissing =>
        /\ pc \in {"start", "done"}
        /\ pc = "done" =>
              /\ exit_kind = "sys.exit"
              /\ exit_status = <<1>>
              /\ UsageError \in printed
              /\ calls = <<>>
              /\ upload_args = <<>>

\* C4: whatever the extras-install step meets (an unknown type, groot without
\* flash-attn, a pip command that returns non-zero), main() goes on: every run
\* that enters install_policy_extras builds the command and runs the training
\* subprocess.
C4_ExtrasInstallNeverAborts ==
    (pc = "install") ~>
        (/\ train_cmd # <<>>
         /\ returncode # <<>>
         /\ \E i \in DOMAIN calls : IsTraining(calls[i]) /\ calls[i].argv = train_cmd)

C4_Witness ==
    /\ returncode # <<>>
    /\ "Warning: Failed to install extras, continuing anyway..." \in printed
    /\ \E i \in DOMAIN calls : IsPip(calls[i]) /\ calls[i].outcome = "nonzero"

\* f"{job_name}_{timestamp}" for counter 0, f"{job_name}_{timestamp}_{counter}" after
C5_Name(n) ==
    IF n = 0 THEN job_name \o <<"_">> \o timestamp
    ELSE job_name \o <<"_">> \o timestamp \o <<"_">> \o Str(n)

C5_SettledPath ==
    /\ pc = "naming" =>
          /\ base_dir = Get(config, "output_dir", DefaultOutputDir)
          /\ base_dir \in fs
          /\ ~Get(config, "resume", FALSE)
    /\ pc = "build" =>
          IF base_dir # None
          THEN /\ output_dir = base_dir \o <<"/">> \o C5_Name(counter)
               /\ output_dir \notin fs
               /\ \A n \in 0..(counter - 1) : (base_dir \o <<"/">> \o C5_Name(n)) \in fs
               /\ job_name = Get(config, "job_name", DefaultJobName)
               /\ timestamp \in Timestamps
               /\ config.output_dir = output_dir
          ELSE /\ output_dir = Get(config, "output_dir", DefaultOutputDir)
               /\ Get(config, "resume", FALSE) \/ output_dir \notin fs

\* C5: with an existing output directory and no resume, the naming loop ends,
\* and the path it settles on is the child <job_name>_<timestamp>[_<counter>] of
\* the original directory, did not exist when chosen, and carries the smallest
\* counter whose path was free; with resume set or no such directory the
\* output path stays as configured.
C5_UniqueTimestampedPath ==
    /\ [] C5_SettledPath
    /\ (pc = "naming") ~> (pc = "build")

C5_Witness ==
    /\ pc = "build"
    /\ base_dir # None
    /\ counter = MaxTaken
    /\ timestamp = ClashTimestamp

\* C6: the repository handed to upload_to_hub is upload.repo_id when non-empty;
\* otherwise policy.repo_id when non-empty and not starting with local/;
\* otherwise the job name (default untitled) with "_" -> "-" and lower-cased.
C6_RepoIdPriority ==
    /\ Len(upload_args) <= 1
    /\ \A i \in DOMAIN upload_args :
          LET repo == upload_args[i].repo_id
              up   == IF "upload" \in DOMAIN config /\ "repo_id" \in DOMAIN config.upload
                      THEN config.upload.repo_id ELSE <<>>
              pol  == IF "repo_id" \in DOMAIN config.policy
                      THEN config.policy.repo_id ELSE <<>>
              job  == IF "job_name" \in DOMAIN config THEN config.job_name ELSE <<"untitled">>
          IN  IF up # <<>> THEN repo = up
              ELSE IF pol # <<>> /\ ~(Len(pol) >= 6 /\ SubSeq(pol, 1, 6) = <<"l", "o", "c", "a", "l", "/">>)
              THEN repo = pol
              ELSE /\ Len(repo) = Len(job)
                   /\ \A k \in DOMAIN job :
                         repo[k] = IF job[k] = "_" THEN "-" ELSE LowerChar(job[k])

C6_Witness ==
    /\ upload_args # <<>>
    /\ "upload" \in DOMAIN config /\ "repo_id" \in DOMAIN config.upload /\ config.upload.repo_id = <<>>
    /\ "repo_id" \in DOMAIN config.policy /\ config.policy.repo_id = LocalRepoId
    /\ upload_args[1].repo_id = <<"m", "y", "-", "r", "u", "n", "-", "a">>

NoAccelerator == accelerator \in {"no_torch", "no_cuda"}

AutoDtype == Get(config, "dtype", <<"auto">>) = <<"auto">>

\* C7 as stated: with dtype "auto" (or no dtype key) and no accelerator the built
\* command contains --policy.dtype float16, for every accepted policy type.
C7_Float16ForEveryPolicy ==
    (train_cmd # <<>> /\ AutoDtype /\ NoAccelerator) =>
        <<"float16">> \in FlagValues(train_cmd, <<"--policy.dtype">>)

\* C7 as amended: the same, for every accepted policy type other than groot.
C7_Float16UnlessGroot ==
    (train_cmd # <<>> /\ AutoDtype /\ NoAccelerator /\ policy_type # <<"groot">>) =>
        FlagValues(train_cmd, <<"--policy.dtype">>) = {<<"float16">>}

C7_Witness ==
    /\ train_cmd # <<>>
    /\ "dtype" \notin DOMAIN config
    /\ accelerator = "no_torch"
    /\ policy_type = <<"xvla">>
    /\ FlagValues(train_cmd, <<"--policy.dtype">>) = {<<"float16">>}

\* C8: install_policy_extras runs one pip subprocess exactly when the policy
\* type is xvla, smolvla, pi or pi05, and no subprocess at all for act, groot or
\* an unknown type; no run makes more than one.
C8_InstallOnlyForExtrasPolicies ==
    /\ Cardinality(PipCalls) <= 1
    /\ (policy_type # None /\ pc \notin {"start", "install"}) =>
          (Cardinality(PipCalls) = 1 <=>
              policy_type \in {<<"xvla">>, <<"smolvla">>, <<"pi">>, <<"pi05">>})
    /\ pc = "outdir" => Len(calls) = Cardinality(PipCalls)

C8_Witness ==
    /\ pc = "outdir"
    /\ policy_type = <<"act">>
    /\ calls = <<>>

\* C9: brev delete is issued only after training returned 0, with
\* auto_delete.enable truthy, a non-empty environment id and token, brev found
\* or its installation returning 0, and brev login, the call before it,
\* returning 0; and when any of these fails the rest is skipped with a warning
\* and the run still ends with sys.exit(0).
C9_DeletionGuardedAndHarmless ==
    /\ \A i \in DOMAIN calls :
          IsBrevDelete(calls[i]) =>
              /\ returncode = <<0>>
              /\ AutoDeleteEnabled
              /\ Truthy(env_id) /\ Truthy(token)
              /\ calls[i].argv = <<<<"brev">>, <<"delete">>, env_id>>
              /\ i > 1
              /\ IsBrevLogin(calls[i - 1])
              /\ calls[i - 1].outcome = "zero"
              /\ \A j \in 1..(i - 1) : IsBrevInstall(calls[j]) => calls[j].outcome = "zero"
    /\ (pc = "done" /\ returncode = <<0>> /\ AutoDeleteEnabled) =>
          /\ exit_kind = "sys.exit"
          /\ exit_status = <<0>>
          /\ (\E i \in DOMAIN calls : IsBrevDelete(calls[i]) /\ calls[i].outcome = "zero")
                \/ printed \cap Warnings # {}

\* C10: the directory handed to upload_to_hub is the value the training command
\* carries after --output_dir, whether output_dir was configured or not and
\* whether the directory existed or not.
C10_UploadDirIsTrainingDir ==
    \A i \in DOMAIN upload_args :
        FlagValues(train_cmd, <<"--output_dir">>) = {upload_args[i].output_dir}

====
